---- MODULE Spec2Model ----
(***************************************************************************)
(* The asset ledger of runtime/src/ibchain.rs: the storage items declared  *)
(* by decl_storage!, and the three dispatchable calls issue, issuemore and *)
(* sendasset of decl_module!.  A StorageMap is a function whose DOMAIN is  *)
(* the set of keys that exist; a getter on a missing key yields the        *)
(* default of the value type.  u64 is scaled down to 0 .. U64Max.          *)
(***************************************************************************)
EXTENDS Integers, Sequences, FiniteSets, TLC

\* ------------------------------------------------------------- bounds
\* The largest value of the scaled-down u64.
U64Max == 2
\* The event log is explored up to this many deposited events.
MaxEvents == 2

\* ------------------------------------------------------------- types
Accounts == {"A", "B", "C"}
Names == {"gold"}
U64 == 0 .. U64Max
\* The values of T::Hash that name assets, and the values of random_seed().
Hashes == {1, 2}
Seeds == {0, 1}

\* Option<T>: None is the empty sequence, Some(v) the sequence of v alone.
None == << >>
Some(v) == << v >>

\* u64::checked_add and u64::checked_sub, after the addition that wraps.
checked_add_wrapping(a, b) == Some((a + b) % (U64Max + 1))
checked_add(a, b) == IF a + b <= U64Max THEN Some(a + b) ELSE None
checked_sub(a, b) == IF a >= b THEN Some(a - b) ELSE None

\* The unchecked `*n += 1` of a u64 (wraps in a release build).
wrapping_inc(n) == (n + 1) % (U64Max + 1)

\* ------------------------------------------------------- storage maps
EmptyMap == [k \in {} |-> 0]
exists(map, key) == key \in DOMAIN map
get(map, key, default) == IF key \in DOMAIN map THEN map[key] ELSE default
insert(map, key, value) ==
    [k \in (DOMAIN map) \cup {key} |-> IF k = key THEN value ELSE map[k]]

\* Storage writes in program order: a StorageMap insert or a StorageValue put.
Ins(item, key, value) == << "insert", item, key, value >>
Put(item, value) == << "put", item, value >>
ApplyWrite(s, w) ==
    IF w[1] = "insert" THEN [s EXCEPT ![w[2]] = insert(@, w[3], w[4])]
    ELSE [s EXCEPT ![w[2]] = w[3]]
RECURSIVE Apply(_, _)
Apply(s, writes) ==
    IF writes = << >> THEN s ELSE Apply(ApplyWrite(s, Head(writes)), Tail(writes))

VARIABLES
    storage,        \* the storage items of decl_storage!, a record by item name
    events,         \* the events deposited so far, oldest first
    called,         \* the call dispatched last: "issue", "issuemore", "sendasset"
    result,         \* the Result of that call: Ok or the error text
    issued_first    \* history: asset id => the issue_qty of the issue that made it

vars == << storage, events, called, result, issued_first >>

\* Every storage item empty (maps) or zero (values): the state at genesis.
EmptyStorage ==
    [ Assets            |-> EmptyMap,   \* map T::Hash => Asset
      AssetOwner        |-> EmptyMap,   \* map T::Hash => Option<AccountId>
      AllAssetsArray    |-> EmptyMap,   \* map u64 => T::Hash
      AllAssetsCount    |-> 0,          \* u64
      AllAssetsIndex    |-> EmptyMap,   \* map T::Hash => u64
      OwnedAssetsArray  |-> EmptyMap,   \* map (AccountId, u64) => T::Hash
      OwnedAssetsCount  |-> EmptyMap,   \* map AccountId => u64
      OwnedAssetsIndex  |-> EmptyMap,   \* map T::Hash => u64
      TotalIssuedAssets |-> EmptyMap,   \* map T::Hash => u64
      Nonce             |-> 0,          \* u64
      MyAssetsArray     |-> EmptyMap,   \* map (AccountId, u64) => T::Hash
      MyAssetsCount     |-> EmptyMap,   \* map AccountId => u64
      MyAssetsIndex     |-> EmptyMap,   \* map (AccountId, T::Hash) => u64
      MyAssetBalances   |-> EmptyMap ]  \* map (AccountId, T::Hash) => u64

\* ------------------------------------------------------------ results
Ok == "Ok"
OverflowOwnedCount == "Overflow adding a new Asset to account balance"
OverflowAllCount == "Overflow adding a new Asset to total supply"
DuplicateAsset == "Asset already exists"
OverflowMyCount == "Overflow adding a new My Asset to total supply"
NotFound == "This asset does not exist"
NoOwner == "No owner for this asset"
NotOwner == "You do not own this asset"
NotOpenForIssuance == "You can not issue more"
OverflowIssue == "Overflow adding a new Asset"
InsufficientBalance == "Your asset is less than you want to send the amount."
OverflowTo == "Overflow adding (to)'s asset"

\* The outcome of a call on storage s: the storage it leaves, its Result, and
\* the events it deposited.  An early return of Err(msg) has written nothing.
Fail(s, msg) == [storage |-> s, result |-> msg, deposited |-> << >>]
Done(s, event) == [storage |-> s, result |-> Ok, deposited |-> << event >>]

\* The getters generated by decl_storage!.
owned_asset_count(s, who) == get(s.OwnedAssetsCount, who, 0)
all_asset_count(s) == s.AllAssetsCount
my_asset_count(s, who) == get(s.MyAssetsCount, who, 0)
owner_of(s, asset_id) ==
    IF exists(s.AssetOwner, asset_id) THEN Some(s.AssetOwner[asset_id]) ELSE None
DefaultAsset == [id |-> 0, name |-> "", open |-> FALSE]
asset(s, asset_id) == get(s.Assets, asset_id, DefaultAsset)
total_issued_asset(s, asset_id) == get(s.TotalIssuedAssets, asset_id, 0)
my_asset_balance(s, key) == get(s.MyAssetBalances, key, 0)

\* The hash of the encoded (random_seed, sender, nonce): a fixed function into
\* the hash space, on which distinct triples can collide.
AccountCode(who) == CASE who = "A" -> 0 [] who = "B" -> 1 [] OTHER -> 2
NumHashes == Cardinality(Hashes)
Hash(seed, sender, nonce) == ((seed + AccountCode(sender) + nonce) % NumHashes) + 1

\* The events of decl_event!.
Issued(who, id) == << "Issued", who, id >>
IssuedMore(who, id, qty) == << "IssuedMore", who, id, qty >>
\* SentAsset with the recipient in the place of the sender and the reverse.
SentAsset_swapped(from, to, id, qty) == << "SentAsset", to, from, id, qty >>
SentAsset(from, to, id, qty) == << "SentAsset", from, to, id, qty >>

\* ------------------------------------------------------------- issue
\* issue_writes without the entry of the caller's per-holder array.
issue_writes_no_holding(s, sender, random_hash, new_asset, issue_qty) ==
    LET owned_count == owned_asset_count(s, sender)
        all_count == all_asset_count(s)
        my_count == my_asset_count(s, sender)
    IN  << Ins("Assets", random_hash, new_asset),
           Ins("AssetOwner", random_hash, sender),
           Ins("AllAssetsArray", all_count, random_hash),
           Put("AllAssetsCount", checked_add(all_count, 1)[1]),
           Ins("AllAssetsIndex", random_hash, all_count),
           Ins("OwnedAssetsArray", << sender, owned_count >>, random_hash),
           Ins("OwnedAssetsCount", sender, checked_add(owned_count, 1)[1]),
           Ins("OwnedAssetsIndex", random_hash, owned_count),
           Ins("TotalIssuedAssets", random_hash, issue_qty),
           Put("Nonce", wrapping_inc(s.Nonce)),
           Ins("MyAssetsCount", sender, checked_add(my_count, 1)[1]),
           Ins("MyAssetsIndex", << sender, random_hash >>, my_count),
           Ins("MyAssetBalances", << sender, random_hash >>, issue_qty) >>

\* issue_writes without the increment of the nonce.
issue_writes_no_nonce(s, sender, random_hash, new_asset, issue_qty) ==
    LET owned_count == owned_asset_count(s, sender)
        all_count == all_asset_count(s)
        my_count == my_asset_count(s, sender)
    IN  << Ins("Assets", random_hash, new_asset),
           Ins("AssetOwner", random_hash, sender),
           Ins("AllAssetsArray", all_count, random_hash),
           Put("AllAssetsCount", checked_add(all_count, 1)[1]),
           Ins("AllAssetsIndex", random_hash, all_count),
           Ins("OwnedAssetsArray", << sender, owned_count >>, random_hash),
           Ins("OwnedAssetsCount", sender, checked_add(owned_count, 1)[1]),
           Ins("OwnedAssetsIndex", random_hash, owned_count),
           Ins("TotalIssuedAssets", random_hash, issue_qty),
           Ins("MyAssetsArray", << sender, my_count >>, random_hash),
           Ins("MyAssetsCount", sender, checked_add(my_count, 1)[1]),
           Ins("MyAssetsIndex", << sender, random_hash >>, my_count),
           Ins("MyAssetBalances", << sender, random_hash >>, issue_qty) >>

\* The update block of issue.
issue_writes(s, sender, random_hash, new_asset, issue_qty) ==
    LET owned_count == owned_asset_count(s, sender)
        all_count == all_asset_count(s)
        my_count == my_asset_count(s, sender)
    IN  << Ins("Assets", random_hash, new_asset),
           Ins("AssetOwner", random_hash, sender),
           Ins("AllAssetsArray", all_count, random_hash),
           Put("AllAssetsCount", checked_add(all_count, 1)[1]),
           Ins("AllAssetsIndex", random_hash, all_count),
           Ins("OwnedAssetsArray", << sender, owned_count >>, random_hash),
           Ins("OwnedAssetsCount", sender, checked_add(owned_count, 1)[1]),
           Ins("OwnedAssetsIndex", random_hash, owned_count),
           Ins("TotalIssuedAssets", random_hash, issue_qty),
           Put("Nonce", wrapping_inc(s.Nonce)),
           Ins("MyAssetsArray", << sender, my_count >>, random_hash),
           Ins("MyAssetsCount", sender, checked_add(my_count, 1)[1]),
           Ins("MyAssetsIndex", << sender, random_hash >>, my_count),
           Ins("MyAssetBalances", << sender, random_hash >>, issue_qty) >>

\* The check that the new id has no owner yet, and the check left out.
already_issued_unchecked(s, random_hash) == FALSE
already_issued(s, random_hash) == exists(s.AssetOwner, random_hash)

\* issue hashing the quantity along with the seed, the caller and the nonce.
issue_hash_of_qty(s, sender, seed, name, issue_qty, open) ==
    LET new_owned_asset_count == checked_add(owned_asset_count(s, sender), 1)
        new_all_asset_count == checked_add(all_asset_count(s), 1)
        nonce == s.Nonce
        random_hash == Hash(seed + issue_qty, sender, nonce)
        new_asset == [id |-> random_hash, name |-> name, open |-> open]
        new_my_asset_count == checked_add(my_asset_count(s, sender), 1)
    IN  IF new_owned_asset_count = None THEN Fail(s, OverflowOwnedCount)
        ELSE IF new_all_asset_count = None THEN Fail(s, OverflowAllCount)
        ELSE IF already_issued(s, random_hash) THEN Fail(s, DuplicateAsset)
        ELSE IF new_my_asset_count = None THEN Fail(s, OverflowMyCount)
        ELSE Done(Apply(s, issue_writes(s, sender, random_hash, new_asset, issue_qty)),
                  Issued(sender, random_hash))

issue(s, sender, seed, name, issue_qty, open) ==
    LET new_owned_asset_count == checked_add(owned_asset_count(s, sender), 1)
        new_all_asset_count == checked_add(all_asset_count(s), 1)
        nonce == s.Nonce
        random_hash == Hash(seed, sender, nonce)
        new_asset == [id |-> random_hash, name |-> name, open |-> open]
        new_my_asset_count == checked_add(my_asset_count(s, sender), 1)
    IN  IF new_owned_asset_count = None THEN Fail(s, OverflowOwnedCount)
        ELSE IF new_all_asset_count = None THEN Fail(s, OverflowAllCount)
        ELSE IF already_issued(s, random_hash) THEN Fail(s, DuplicateAsset)
        ELSE IF new_my_asset_count = None THEN Fail(s, OverflowMyCount)
        ELSE Done(Apply(s, issue_writes(s, sender, random_hash, new_asset, issue_qty)),
                  Issued(sender, random_hash))

\* --------------------------------------------------------- issuemore
\* The checks `owner == sender` and `asset.open == true` of issuemore, each
\* after the same check left out.
is_owner_unchecked(owner, sender) == TRUE
is_owner(owner, sender) == owner = sender
is_open_unchecked(the_asset) == TRUE
is_open(the_asset) == the_asset.open = TRUE

\* issuemore_writes without the credit of the caller's balance.
issuemore_writes_total_only(sender, asset_id, new_total_issued_asset, new_my_asset_balance) ==
    << Ins("TotalIssuedAssets", asset_id, new_total_issued_asset) >>

\* issuemore_writes storing the caller's new balance as the asset's total.
issuemore_writes_balance_as_total(sender, asset_id, new_total_issued_asset, new_my_asset_balance) ==
    << Ins("TotalIssuedAssets", asset_id, new_my_asset_balance),
       Ins("MyAssetBalances", << sender, asset_id >>, new_my_asset_balance) >>

\* The update block of issuemore.
issuemore_writes(sender, asset_id, new_total_issued_asset, new_my_asset_balance) ==
    << Ins("TotalIssuedAssets", asset_id, new_total_issued_asset),
       Ins("MyAssetBalances", << sender, asset_id >>, new_my_asset_balance) >>

issuemore(s, sender, asset_id, issue_qty) ==
    LET owner == owner_of(s, asset_id)
        the_asset == asset(s, asset_id)
        new_total_issued_asset == checked_add(total_issued_asset(s, asset_id), issue_qty)
        new_my_asset_balance ==
            checked_add(my_asset_balance(s, << sender, asset_id >>), issue_qty)
    IN  IF ~exists(s.Assets, asset_id) THEN Fail(s, NotFound)
        ELSE IF owner = None THEN Fail(s, NoOwner)
        ELSE IF ~is_owner(owner[1], sender) THEN Fail(s, NotOwner)
        ELSE IF ~is_open(the_asset) THEN Fail(s, NotOpenForIssuance)
        ELSE IF new_total_issued_asset = None THEN Fail(s, OverflowIssue)
        ELSE IF new_my_asset_balance = None THEN Fail(s, OverflowIssue)
        ELSE Done(Apply(s, issuemore_writes(sender, asset_id, new_total_issued_asset[1],
                                            new_my_asset_balance[1])),
                  IssuedMore(sender, asset_id, issue_qty))

\* --------------------------------------------------------- sendasset
\* The check that the caller has a holding entry for the asset, after the
\* same check left out.
has_holding_unchecked(s, who, asset_id) == TRUE
\* The check that the caller has a holding entry, for any asset at all.
has_holding_any_asset(s, who, asset_id) == \E key \in DOMAIN s.MyAssetsIndex : key[1] = who
has_holding(s, who, asset_id) == exists(s.MyAssetsIndex, << who, asset_id >>)

\* The check `my_asset_balance >= qty` of sendasset, after the strict one.
has_enough_strict(balance, qty) == balance > qty
has_enough(balance, qty) == balance >= qty

\* The update block of sendasset when the recipient has no holding entry
\* (after the same block crediting the recipient with the sender's new
\* balance), and the one when it has.  Both write the sender's balance, then
\* the recipient's.
sendasset_writes_new_swapped(s, sender, to, asset_id, new_my_asset_balance, new_to_asset_balance) ==
    LET to_asset_count == my_asset_count(s, to)
    IN  << Ins("MyAssetBalances", << sender, asset_id >>, new_my_asset_balance),
           Ins("MyAssetsArray", << to, to_asset_count >>, asset_id),
           Ins("MyAssetsCount", to, checked_add(to_asset_count, 1)[1]),
           Ins("MyAssetsIndex", << to, asset_id >>, to_asset_count),
           Ins("MyAssetBalances", << to, asset_id >>, new_my_asset_balance) >>

\* sendasset_writes_new recording the recipient's new count, not the position
\* of the new entry, in the reverse index.
sendasset_writes_new_index_off(s, sender, to, asset_id, new_my_asset_balance, new_to_asset_balance) ==
    LET to_asset_count == my_asset_count(s, to)
    IN  << Ins("MyAssetBalances", << sender, asset_id >>, new_my_asset_balance),
           Ins("MyAssetsArray", << to, to_asset_count >>, asset_id),
           Ins("MyAssetsCount", to, checked_add(to_asset_count, 1)[1]),
           Ins("MyAssetsIndex", << to, asset_id >>, checked_add(to_asset_count, 1)[1]),
           Ins("MyAssetBalances", << to, asset_id >>, new_to_asset_balance) >>

sendasset_writes_new(s, sender, to, asset_id, new_my_asset_balance, new_to_asset_balance) ==
    LET to_asset_count == my_asset_count(s, to)
    IN  << Ins("MyAssetBalances", << sender, asset_id >>, new_my_asset_balance),
           Ins("MyAssetsArray", << to, to_asset_count >>, asset_id),
           Ins("MyAssetsCount", to, checked_add(to_asset_count, 1)[1]),
           Ins("MyAssetsIndex", << to, asset_id >>, to_asset_count),
           Ins("MyAssetBalances", << to, asset_id >>, new_to_asset_balance) >>

\* sendasset_writes making the recipient the owner of the asset as well.
sendasset_writes_moves_owner(sender, to, asset_id, new_my_asset_balance, new_to_asset_balance) ==
    << Ins("MyAssetBalances", << sender, asset_id >>, new_my_asset_balance),
       Ins("MyAssetBalances", << to, asset_id >>, new_to_asset_balance),
       Ins("AssetOwner", asset_id, to) >>

sendasset_writes(sender, to, asset_id, new_my_asset_balance, new_to_asset_balance) ==
    << Ins("MyAssetBalances", << sender, asset_id >>, new_my_asset_balance),
       Ins("MyAssetBalances", << to, asset_id >>, new_to_asset_balance) >>

\* sendasset with the sender's balance written as soon as it is computed,
\* before the checks of the recipient's values.
sendasset_early_write(s, sender, to, asset_id, qty) ==
    LET balance == my_asset_balance(s, << sender, asset_id >>)
        flg == exists(s.MyAssetsIndex, << to, asset_id >>)
        to_asset_balance == IF flg THEN my_asset_balance(s, << to, asset_id >>) ELSE 0
        new_my_asset_balance == checked_sub(balance, qty)
        new_to_asset_balance == checked_add(to_asset_balance, qty)
        new_to_asset_count == checked_add(my_asset_count(s, to), 1)
        s1 == ApplyWrite(s, Ins("MyAssetBalances", << sender, asset_id >>,
                                new_my_asset_balance[1]))
    IN  IF ~has_holding(s, sender, asset_id) THEN Fail(s, NotFound)
        ELSE IF ~has_enough(balance, qty) THEN Fail(s, InsufficientBalance)
        ELSE IF new_my_asset_balance = None THEN Fail(s, InsufficientBalance)
        ELSE IF new_to_asset_balance = None THEN Fail(s1, OverflowTo)
        ELSE IF ~flg THEN
            IF new_to_asset_count = None THEN Fail(s1, OverflowMyCount)
            ELSE Done(Apply(s1, sendasset_writes_new(s, sender, to, asset_id,
                                                     new_my_asset_balance[1],
                                                     new_to_asset_balance[1])),
                      SentAsset(sender, to, asset_id, qty))
        ELSE Done(Apply(s1, sendasset_writes(sender, to, asset_id, new_my_asset_balance[1],
                                             new_to_asset_balance[1])),
                  SentAsset(sender, to, asset_id, qty))

\* sendasset taking a recipient with a zero balance for one without a holding
\* entry.
sendasset_flg_by_balance(s, sender, to, asset_id, qty) ==
    LET balance == my_asset_balance(s, << sender, asset_id >>)
        flg == my_asset_balance(s, << to, asset_id >>) > 0
        to_asset_balance == IF flg THEN my_asset_balance(s, << to, asset_id >>) ELSE 0
        new_my_asset_balance == checked_sub(balance, qty)
        new_to_asset_balance == checked_add(to_asset_balance, qty)
        new_to_asset_count == checked_add(my_asset_count(s, to), 1)
    IN  IF ~has_holding(s, sender, asset_id) THEN Fail(s, NotFound)
        ELSE IF ~has_enough(balance, qty) THEN Fail(s, InsufficientBalance)
        ELSE IF new_my_asset_balance = None THEN Fail(s, InsufficientBalance)
        ELSE IF new_to_asset_balance = None THEN Fail(s, OverflowTo)
        ELSE IF ~flg THEN
            IF new_to_asset_count = None THEN Fail(s, OverflowMyCount)
            ELSE Done(Apply(s, sendasset_writes_new(s, sender, to, asset_id,
                                                    new_my_asset_balance[1],
                                                    new_to_asset_balance[1])),
                      SentAsset(sender, to, asset_id, qty))
        ELSE Done(Apply(s, sendasset_writes(sender, to, asset_id, new_my_asset_balance[1],
                                            new_to_asset_balance[1])),
                  SentAsset(sender, to, asset_id, qty))

sendasset(s, sender, to, asset_id, qty) ==
    LET balance == my_asset_balance(s, << sender, asset_id >>)
        flg == exists(s.MyAssetsIndex, << to, asset_id >>)
        to_asset_balance == IF flg THEN my_asset_balance(s, << to, asset_id >>) ELSE 0
        new_my_asset_balance == checked_sub(balance, qty)
        new_to_asset_balance == checked_add(to_asset_balance, qty)
        new_to_asset_count == checked_add(my_asset_count(s, to), 1)
    IN  IF ~has_holding(s, sender, asset_id) THEN Fail(s, NotFound)
        ELSE IF ~has_enough(balance, qty) THEN Fail(s, InsufficientBalance)
        ELSE IF new_my_asset_balance = None THEN Fail(s, InsufficientBalance)
        ELSE IF new_to_asset_balance = None THEN Fail(s, OverflowTo)
        ELSE IF ~flg THEN
            IF new_to_asset_count = None THEN Fail(s, OverflowMyCount)
            ELSE Done(Apply(s, sendasset_writes_new(s, sender, to, asset_id,
                                                    new_my_asset_balance[1],
                                                    new_to_asset_balance[1])),
                      SentAsset(sender, to, asset_id, qty))
        ELSE Done(Apply(s, sendasset_writes(sender, to, asset_id, new_my_asset_balance[1],
                                            new_to_asset_balance[1])),
                  SentAsset(sender, to, asset_id, qty))

\* ------------------------------------------------------ specification
Init ==
    /\ storage = EmptyStorage
    /\ events = << >>
    /\ called = "none"
    /\ result = Ok
    /\ issued_first = EmptyMap

\* A call with outcome out: its writes land, its events are appended to the
\* log and its Result is returned.
Dispatch(name, out) ==
    /\ storage' = out.storage
    /\ events' = events \o out.deposited
    /\ called' = name
    /\ result' = out.result

DoIssue(sender, seed, name, issue_qty, open) ==
    LET out == issue(storage, sender, seed, name, issue_qty, open)
    IN  /\ Dispatch("issue", out)
        /\ issued_first' =
               IF out.result = Ok
               THEN insert(issued_first, out.deposited[1][3], issue_qty)
               ELSE issued_first

DoIssueMore(sender, asset_id, issue_qty) ==
    /\ Dispatch("issuemore", issuemore(storage, sender, asset_id, issue_qty))
    /\ UNCHANGED issued_first

DoSendAsset(sender, to, asset_id, qty) ==
    /\ Dispatch("sendasset", sendasset(storage, sender, to, asset_id, qty))
    /\ UNCHANGED issued_first

CallIssue ==
    /\ Len(events) < MaxEvents
    /\ \E sender \in Accounts, seed \in Seeds, name \in Names, issue_qty \in U64,
          open \in BOOLEAN :
           DoIssue(sender, seed, name, issue_qty, open)

CallIssueMore ==
    /\ Len(events) < MaxEvents
    /\ \E sender \in Accounts, asset_id \in Hashes, issue_qty \in U64 :
           DoIssueMore(sender, asset_id, issue_qty)

CallSendAsset ==
    /\ Len(events) < MaxEvents
    /\ \E sender \in Accounts, to \in Accounts, asset_id \in Hashes, qty \in U64 :
           DoSendAsset(sender, to, asset_id, qty)

Next == CallIssue \/ CallIssueMore \/ CallSendAsset

Spec == Init /\ [][Next]_vars

\* The scenario of the ledger's documentation, for any accounts and
\* quantities: an account issues an open asset, sends some of it to a second
\* account, issues more, and the second account then tries to send a third
\* account more than it received.  The log tells how far the scenario is.
ScenarioIssue ==
    /\ events = << >>
    /\ \E sender \in Accounts, seed \in Seeds, name \in Names, issue_qty \in U64 :
           DoIssue(sender, seed, name, issue_qty, TRUE)

ScenarioSend ==
    /\ Len(events) = 1
    /\ \E to \in Accounts \ {events[1][2]}, qty \in U64 :
           DoSendAsset(events[1][2], to, events[1][3], qty)

ScenarioIssueMore ==
    /\ Len(events) = 2
    /\ \E issue_qty \in U64 : DoIssueMore(events[1][2], events[1][3], issue_qty)

ScenarioOverdraw ==
    /\ Len(events) = 3
    /\ \E to \in Accounts \ {events[1][2], events[2][3]}, qty \in U64 :
           /\ qty > events[2][5]
           /\ DoSendAsset(events[2][3], to, events[1][3], qty)

ScenarioNext == ScenarioIssue \/ ScenarioSend \/ ScenarioIssueMore \/ ScenarioOverdraw

ScenarioSpec == Init /\ [][ScenarioNext]_vars

\* The same calls with the quantities at the ends of the u64 range and next to
\* zero: nothing, one unit, and the maximum.
EdgeQuantities == {0, 1, U64Max}

EdgeIssue ==
    /\ Len(events) < MaxEvents
    /\ \E sender \in Accounts, seed \in Seeds, name \in Names,
          issue_qty \in EdgeQuantities, open \in BOOLEAN :
           DoIssue(sender, seed, name, issue_qty, open)

EdgeIssueMore ==
    /\ Len(events) < MaxEvents
    /\ \E sender \in Accounts, asset_id \in Hashes, issue_qty \in EdgeQuantities :
           DoIssueMore(sender, asset_id, issue_qty)

EdgeSendAsset ==
    /\ Len(events) < MaxEvents
    /\ \E sender \in Accounts, to \in Accounts, asset_id \in Hashes,
          qty \in EdgeQuantities :
           DoSendAsset(sender, to, asset_id, qty)

EdgeNext == EdgeIssue \/ EdgeIssueMore \/ EdgeSendAsset

EdgeSpec == Init /\ [][EdgeNext]_vars

\* ------------------------------------------------------------- claims
\* The sum of f over the finite set S.
RECURSIVE Sum(_, _)
Sum(f, S) ==
    IF S = {} THEN 0
    ELSE LET x == CHOOSE y \in S : TRUE IN f[x] + Sum(f, S \ {x})

\* The sum over all accounts of the balances of asset_id in storage s.
SumBalances(s, asset_id) ==
    Sum([who \in Accounts |-> my_asset_balance(s, << who, asset_id >>)], Accounts)

LastEvent == events[Len(events)]

\* C1: for every existing asset, the balances of all accounts add up to
\* TotalIssuedAssets of the asset, in every reachable state.
C1_Conservation ==
    \A asset_id \in DOMAIN storage.Assets :
        SumBalances(storage, asset_id) = total_issued_asset(storage, asset_id)

\* C2: a successful sendasset of qty by a caller holding balance >= qty leaves
\* the caller with balance - qty and the recipient with its previous balance
\* (0 without a holding) plus qty, and changes no other balance and no total.
C2_TransferCorrect ==
    \A sender \in Accounts, to \in Accounts, asset_id \in Hashes, qty \in U64 :
        LET out == sendasset(storage, sender, to, asset_id, qty)
            balance == my_asset_balance(storage, << sender, asset_id >>)
            to_balance == my_asset_balance(storage, << to, asset_id >>)
        IN  (balance >= qty /\ out.result = Ok) =>
                /\ my_asset_balance(out.storage, << sender, asset_id >>) = balance - qty
                /\ my_asset_balance(out.storage, << to, asset_id >>) = to_balance + qty
                /\ \A key \in DOMAIN storage.MyAssetBalances :
                       key \notin {<< sender, asset_id >>, << to, asset_id >>} =>
                           out.storage.MyAssetBalances[key] = storage.MyAssetBalances[key]
                /\ DOMAIN out.storage.MyAssetBalances =
                       DOMAIN storage.MyAssetBalances \cup {<< to, asset_id >>}
                /\ out.storage.TotalIssuedAssets = storage.TotalIssuedAssets

\* What C3 asks of the outcome of a call.
Rejected(out) == out.result # Ok => out.storage = storage /\ out.deposited = << >>

\* C3: a call that returns an error leaves every storage item as it was and
\* deposits no event.
C3_RejectionLeavesState ==
    /\ \A sender \in Accounts, seed \in Seeds, name \in Names, issue_qty \in U64,
          open \in BOOLEAN :
           Rejected(issue(storage, sender, seed, name, issue_qty, open))
    /\ \A sender \in Accounts, asset_id \in Hashes, issue_qty \in U64 :
           Rejected(issuemore(storage, sender, asset_id, issue_qty))
    /\ \A sender \in Accounts, to \in Accounts, asset_id \in Hashes, qty \in U64 :
           Rejected(sendasset(storage, sender, to, asset_id, qty))

\* C3 witness: a call was rejected in a ledger that holds an asset, by a check
\* that comes after computed values (the recipient's balance would overflow).
C3_Witness ==
    /\ called = "sendasset"
    /\ result = OverflowTo
    /\ storage.AllAssetsCount > 0

\* C4 as claimed: issuemore on an asset that is not open fails with
\* NotOpenForIssuance for every caller and every quantity.
C4_ClosedAlwaysNotOpen ==
    \A sender \in Accounts, asset_id \in DOMAIN storage.Assets, issue_qty \in U64 :
        ~storage.Assets[asset_id].open =>
            issuemore(storage, sender, asset_id, issue_qty).result = NotOpenForIssuance

\* C4 amended: issuemore on an asset that is not open fails for every caller
\* and every quantity and writes nothing: with NotOpenForIssuance when the
\* caller is the asset's owner, with NotOwner (checked first) otherwise.
C4_ClosedAlwaysFails ==
    \A sender \in Accounts, asset_id \in DOMAIN storage.Assets, issue_qty \in U64 :
        LET out == issuemore(storage, sender, asset_id, issue_qty)
        IN  ~storage.Assets[asset_id].open =>
                /\ out.result = IF sender = storage.AssetOwner[asset_id]
                                THEN NotOpenForIssuance ELSE NotOwner
                /\ out.storage = storage

\* C4 witness: the owner of an asset that is not open called issuemore and was
\* refused.
C4_Witness ==
    /\ called = "issuemore"
    /\ result = NotOpenForIssuance
    /\ \E asset_id \in DOMAIN storage.Assets : ~storage.Assets[asset_id].open

\* C5: issuemore on an existing asset by an account other than its owner fails
\* with NotOwner, open or not and whatever the quantity, and so leaves
\* TotalIssuedAssets alone.
C5_NotOwnerRejected ==
    \A sender \in Accounts, asset_id \in DOMAIN storage.Assets, issue_qty \in U64 :
        LET out == issuemore(storage, sender, asset_id, issue_qty)
        IN  sender # storage.AssetOwner[asset_id] =>
                /\ out.result = NotOwner
                /\ out.storage.TotalIssuedAssets = storage.TotalIssuedAssets

\* C5 witness: an account that does not own an open asset called issuemore on
\* the ledger and was refused.
C5_Witness ==
    /\ called = "issuemore"
    /\ result = NotOwner
    /\ \E asset_id \in DOMAIN storage.Assets : storage.Assets[asset_id].open

\* The positions of an enumeration array (restricted to the keys in Keys) that
\* hold asset_id.
Positions(array, Keys, asset_id) == {k \in DOMAIN array \cap Keys : array[k] = asset_id}
KeysOf(who) == {who} \X U64

\* C6: after a successful issue the new id did not exist before, the caller's
\* balance and the total are the issued quantity, the caller is the owner, the
\* Asset holds the given name and flag, and the id is at exactly one position
\* of the global, the caller's per-issuer and the caller's per-holder arrays.
C6_IssuePostcondition ==
    \A sender \in Accounts, seed \in Seeds, name \in Names, issue_qty \in U64,
       open \in BOOLEAN :
        LET out == issue(storage, sender, seed, name, issue_qty, open)
            id == out.deposited[1][3]
            new == out.storage
        IN  out.result = Ok =>
                /\ id \notin DOMAIN storage.Assets
                /\ id \notin DOMAIN storage.AssetOwner
                /\ exists(new.MyAssetBalances, << sender, id >>)
                /\ new.MyAssetBalances[<< sender, id >>] = issue_qty
                /\ exists(new.TotalIssuedAssets, id)
                /\ new.TotalIssuedAssets[id] = issue_qty
                /\ owner_of(new, id) = Some(sender)
                /\ exists(new.Assets, id)
                /\ new.Assets[id] = [id |-> id, name |-> name, open |-> open]
                /\ Cardinality(Positions(new.AllAssetsArray, U64, id)) = 1
                /\ Cardinality(Positions(new.OwnedAssetsArray, KeysOf(sender), id)) = 1
                /\ Cardinality(Positions(new.MyAssetsArray, KeysOf(sender), id)) = 1

\* C6 witness: an account has issued its second asset.
C6_Witness ==
    /\ called = "issue"
    /\ result = Ok
    /\ \E who \in Accounts : owned_asset_count(storage, who) = 2

\* No asset id is at two positions of the global enumeration.
NoDuplicateIds ==
    \A i, j \in DOMAIN storage.AllAssetsArray :
        storage.AllAssetsArray[i] = storage.AllAssetsArray[j] => i = j

\* The outcome out of an issue call leaves the Asset and the owner of every
\* existing asset as they were.
NoOverwrite(out) ==
    \A asset_id \in DOMAIN storage.AssetOwner :
        /\ exists(out.storage.AssetOwner, asset_id)
        /\ out.storage.AssetOwner[asset_id] = storage.AssetOwner[asset_id]
        /\ asset(out.storage, asset_id) = asset(storage, asset_id)

\* C7 as claimed: ids are unique, records are never overwritten, and an issue
\* whose hash is an existing id fails with DuplicateAsset and creates nothing.
C7_CollisionIsDuplicate ==
    /\ NoDuplicateIds
    /\ \A sender \in Accounts, seed \in Seeds, name \in Names, issue_qty \in U64,
          open \in BOOLEAN :
           LET out == issue(storage, sender, seed, name, issue_qty, open)
           IN  /\ NoOverwrite(out)
               /\ exists(storage.AssetOwner, Hash(seed, sender, storage.Nonce)) =>
                      out.result = DuplicateAsset /\ out.storage = storage

\* C7 amended: ids are unique, records are never overwritten, and an issue
\* whose hash is an existing id fails and creates nothing: with Overflow when
\* the caller's issued count or the global count is at the maximum (those are
\* checked first), with DuplicateAsset otherwise.
C7_CollisionRejected ==
    /\ NoDuplicateIds
    /\ \A sender \in Accounts, seed \in Seeds, name \in Names, issue_qty \in U64,
          open \in BOOLEAN :
           LET out == issue(storage, sender, seed, name, issue_qty, open)
           IN  /\ NoOverwrite(out)
               /\ exists(storage.AssetOwner, Hash(seed, sender, storage.Nonce)) =>
                      /\ out.result =
                             IF owned_asset_count(storage, sender) = U64Max
                             THEN OverflowOwnedCount
                             ELSE IF all_asset_count(storage) = U64Max
                             THEN OverflowAllCount
                             ELSE DuplicateAsset
                      /\ out.storage = storage
                      /\ out.deposited = << >>

\* C7 witness: an issue call hashed to an id that exists and was refused.
C7_Witness ==
    /\ called = "issue"
    /\ result = DuplicateAsset
    /\ storage.AllAssetsCount > 0

\* C8 as claimed: sendasset by a caller with no holding entry for the asset
\* fails with the error of an insufficient balance.
C8_NoHoldingIsInsufficient ==
    \A sender \in Accounts, to \in Accounts, asset_id \in Hashes, qty \in U64 :
        ~exists(storage.MyAssetsIndex, << sender, asset_id >>) =>
            sendasset(storage, sender, to, asset_id, qty).result = InsufficientBalance

\* C8 amended: sendasset by a caller with no holding entry for the asset fails
\* with NotFound, which is not the error returned when the caller has an entry
\* and a balance smaller than the quantity (InsufficientBalance).
C8_NoHoldingIsNotFound ==
    \A sender \in Accounts, to \in Accounts, asset_id \in Hashes, qty \in U64 :
        LET out == sendasset(storage, sender, to, asset_id, qty)
        IN  IF ~exists(storage.MyAssetsIndex, << sender, asset_id >>)
            THEN out.result = NotFound /\ out.result # InsufficientBalance
            ELSE my_asset_balance(storage, << sender, asset_id >>) < qty =>
                     out.result = InsufficientBalance

\* C8 witness: an account without a holding called sendasset for an asset that
\* exists and was refused.
C8_Witness ==
    /\ called = "sendasset"
    /\ result = NotFound
    /\ storage.AllAssetsCount > 0

\* C9: a successful issuemore adds the quantity to the asset's total and to
\* the caller's balance of it and changes nothing else in storage.
C9_IssueMoreEffect ==
    \A sender \in Accounts, asset_id \in Hashes, issue_qty \in U64 :
        LET out == issuemore(storage, sender, asset_id, issue_qty)
            key == << sender, asset_id >>
        IN  out.result = Ok =>
                /\ exists(storage.TotalIssuedAssets, asset_id)
                /\ exists(storage.MyAssetBalances, key)
                /\ out.storage =
                       [storage EXCEPT
                           !.TotalIssuedAssets[asset_id] = @ + issue_qty,
                           !.MyAssetBalances[key] = @ + issue_qty]
                /\ out.deposited = << IssuedMore(sender, asset_id, issue_qty) >>

\* C9 witness: the owner of an open asset has issued more of it.
C9_Witness ==
    /\ called = "issuemore"
    /\ result = Ok
    /\ LastEvent[1] = "IssuedMore"
    /\ LastEvent[4] > 0

\* C10: in the scenario, once the first account (issued Q) has sent q to the
\* second and issued d more, the total is Q + d, the first account holds
\* Q - q + d, the second holds q under exactly one holding entry, and every
\* sendasset by the second account to a third of more than q fails with
\* InsufficientBalance and changes nothing.
C10_Scenario ==
    Len(events) = 3 =>
        LET first == events[1][2]
            id == events[1][3]
            second == events[2][3]
            q == events[2][5]
            d == events[3][4]
            Q == issued_first[id]
        IN  /\ events[1][1] = "Issued" /\ events[2][1] = "SentAsset"
            /\ events[3][1] = "IssuedMore"
            /\ q <= Q
            /\ storage.TotalIssuedAssets[id] = Q + d
            /\ storage.MyAssetBalances[<< first, id >>] = Q - q + d
            /\ storage.MyAssetBalances[<< second, id >>] = q
            /\ storage.MyAssetsCount[second] = 1
            /\ Positions(storage.MyAssetsArray, KeysOf(second), id) = {<< second, 0 >>}
            /\ {k \in DOMAIN storage.MyAssetsIndex : k[1] = second} = {<< second, id >>}
            /\ \A third \in Accounts \ {first, second}, qty \in U64 :
                   LET out == sendasset(storage, second, third, id, qty)
                   IN  qty > q =>
                           /\ out.result = InsufficientBalance
                           /\ out.storage = storage
                           /\ out.deposited = << >>

\* C10 witness: the scenario was played to its end with positive quantities,
\* and the second account's transfer was refused.
C10_Witness ==
    /\ Len(events) = 3
    /\ events[2][5] > 0
    /\ events[3][4] > 0
    /\ called = "sendasset"
    /\ result = InsufficientBalance

\* The global enumeration: positions 0 .. count-1, no id twice, and a reverse
\* index that is the inverse of the array.
EnumAll ==
    /\ DOMAIN storage.AllAssetsArray = 0 .. (storage.AllAssetsCount - 1)
    /\ \A i, j \in DOMAIN storage.AllAssetsArray :
           storage.AllAssetsArray[i] = storage.AllAssetsArray[j] => i = j
    /\ \A i \in DOMAIN storage.AllAssetsArray :
           /\ exists(storage.AllAssetsIndex, storage.AllAssetsArray[i])
           /\ storage.AllAssetsIndex[storage.AllAssetsArray[i]] = i
    /\ \A v \in DOMAIN storage.AllAssetsIndex :
           /\ exists(storage.AllAssetsArray, storage.AllAssetsIndex[v])
           /\ storage.AllAssetsArray[storage.AllAssetsIndex[v]] = v

\* The per-issuer enumerations: for each account positions 0 .. count-1, no id
\* twice, and the reverse index (by id alone, an asset has one issuer) gives
\* the position of the id in the array of its issuer.
EnumOwned ==
    /\ DOMAIN storage.OwnedAssetsCount \subseteq Accounts
    /\ DOMAIN storage.OwnedAssetsArray =
           UNION {{who} \X (0 .. (owned_asset_count(storage, who) - 1)) : who \in Accounts}
    /\ \A k, l \in DOMAIN storage.OwnedAssetsArray :
           storage.OwnedAssetsArray[k] = storage.OwnedAssetsArray[l] => k = l
    /\ \A k \in DOMAIN storage.OwnedAssetsArray :
           /\ exists(storage.OwnedAssetsIndex, storage.OwnedAssetsArray[k])
           /\ storage.OwnedAssetsIndex[storage.OwnedAssetsArray[k]] = k[2]
    /\ \A v \in DOMAIN storage.OwnedAssetsIndex :
           /\ exists(storage.AssetOwner, v)
           /\ exists(storage.OwnedAssetsArray,
                     << storage.AssetOwner[v], storage.OwnedAssetsIndex[v] >>)
           /\ storage.OwnedAssetsArray[<< storage.AssetOwner[v],
                                          storage.OwnedAssetsIndex[v] >>] = v

\* The per-holder enumerations: for each account positions 0 .. count-1, no id
\* twice in the array of one account, and the reverse index by (holder, id)
\* gives the position of the id in the holder's array.
EnumMy ==
    /\ DOMAIN storage.MyAssetsCount \subseteq Accounts
    /\ DOMAIN storage.MyAssetsArray =
           UNION {{who} \X (0 .. (my_asset_count(storage, who) - 1)) : who \in Accounts}
    /\ \A k, l \in DOMAIN storage.MyAssetsArray :
           (k[1] = l[1] /\ storage.MyAssetsArray[k] = storage.MyAssetsArray[l]) => k = l
    /\ \A k \in DOMAIN storage.MyAssetsArray :
           /\ exists(storage.MyAssetsIndex, << k[1], storage.MyAssetsArray[k] >>)
           /\ storage.MyAssetsIndex[<< k[1], storage.MyAssetsArray[k] >>] = k[2]
    /\ \A key \in DOMAIN storage.MyAssetsIndex :
           /\ exists(storage.MyAssetsArray, << key[1], storage.MyAssetsIndex[key] >>)
           /\ storage.MyAssetsArray[<< key[1], storage.MyAssetsIndex[key] >>] = key[2]

\* C11: in every reachable state each of the three enumerations (global,
\* per-issuer, per-holder) has its array populated at exactly 0 .. count-1,
\* holds no value at two positions of one array, and has a reverse index that
\* is the inverse of the array.
C11_EnumerationsConsistent == EnumAll /\ EnumOwned /\ EnumMy

\* C11 witness: a transfer has appended a holding to the enumeration of an
\* account that issued nothing.
C11_Witness ==
    /\ called = "sendasset"
    /\ result = Ok
    /\ \E key \in DOMAIN storage.MyAssetsIndex :
           /\ key[1] = LastEvent[3]
           /\ storage.AssetOwner[key[2]] # key[1]
           /\ owned_asset_count(storage, key[1]) = 0

\* The map new has every key of the map old, with the value it had.
Extends(old, new) ==
    /\ DOMAIN old \subseteq DOMAIN new
    /\ \A k \in DOMAIN old : new[k] = old[k]

\* The outcome out of a call decreases no count and keeps every populated
\* array position and every reverse-index entry of the three enumerations.
AppendOnly(out) ==
    /\ all_asset_count(out.storage) >= all_asset_count(storage)
    /\ \A who \in Accounts :
           /\ owned_asset_count(out.storage, who) >= owned_asset_count(storage, who)
           /\ my_asset_count(out.storage, who) >= my_asset_count(storage, who)
    /\ Extends(storage.AllAssetsArray, out.storage.AllAssetsArray)
    /\ Extends(storage.AllAssetsIndex, out.storage.AllAssetsIndex)
    /\ Extends(storage.OwnedAssetsArray, out.storage.OwnedAssetsArray)
    /\ Extends(storage.OwnedAssetsIndex, out.storage.OwnedAssetsIndex)
    /\ Extends(storage.MyAssetsArray, out.storage.MyAssetsArray)
    /\ Extends(storage.MyAssetsIndex, out.storage.MyAssetsIndex)

\* C12: no call decreases a count of an enumeration, changes the value at a
\* populated array position, or changes or removes a reverse-index entry (a
\* call that fails by leaving all of storage as it is); a holding entry stays
\* as it is also when a transfer empties the balance.
C12_AppendOnly ==
    /\ \A sender \in Accounts, seed \in Seeds, name \in Names, issue_qty \in U64,
          open \in BOOLEAN :
           LET out == issue(storage, sender, seed, name, issue_qty, open)
           IN  IF out.result = Ok THEN AppendOnly(out) ELSE out.storage = storage
    /\ \A sender \in Accounts, asset_id \in Hashes, issue_qty \in U64 :
           LET out == issuemore(storage, sender, asset_id, issue_qty)
           IN  IF out.result = Ok THEN AppendOnly(out) ELSE out.storage = storage
    /\ \A sender \in Accounts, to \in Accounts, asset_id \in Hashes, qty \in U64 :
           LET out == sendasset(storage, sender, to, asset_id, qty)
           IN  IF out.result = Ok THEN AppendOnly(out) ELSE out.storage = storage

\* C12 witness: a holder has sent away its whole positive balance of an asset
\* and still has its holding entry, at the position it had.
C12_Witness ==
    /\ called = "sendasset"
    /\ result = Ok
    /\ LastEvent[5] > 0
    /\ LastEvent[2] # LastEvent[3]
    /\ exists(storage.MyAssetsIndex, << LastEvent[2], LastEvent[4] >>)
    /\ storage.MyAssetsArray[<< LastEvent[2],
                                storage.MyAssetsIndex[<< LastEvent[2], LastEvent[4] >>] >>]
           = LastEvent[4]
    /\ my_asset_balance(storage, << LastEvent[2], LastEvent[4] >>) = 0

\* The outcome out of a call keeps every existing asset, with the Asset record
\* and the owner it has.
Immutable(out) ==
    \A asset_id \in DOMAIN storage.Assets :
        /\ exists(out.storage.Assets, asset_id)
        /\ out.storage.Assets[asset_id] = storage.Assets[asset_id]
        /\ exists(out.storage.AssetOwner, asset_id)
        /\ out.storage.AssetOwner[asset_id] = storage.AssetOwner[asset_id]

\* The assets that exist are those of the Issued events of the log, each with
\* the id and the issuer of its event.
AsIssued ==
    /\ DOMAIN storage.Assets = DOMAIN storage.AssetOwner
    /\ DOMAIN storage.Assets = {events[i][3] : i \in {j \in DOMAIN events : events[j][1] = "Issued"}}
    /\ \A i \in DOMAIN events :
           events[i][1] = "Issued" =>
               /\ storage.Assets[events[i][3]].id = events[i][3]
               /\ storage.AssetOwner[events[i][3]] = events[i][2]

\* C13: an asset that exists keeps existing, and no issue, issuemore or
\* sendasset call changes its Asset record (id, name, open) or its owner from
\* what the issue that created it wrote.
C13_AssetImmutable ==
    /\ AsIssued
    /\ \A sender \in Accounts, seed \in Seeds, name \in Names, issue_qty \in U64,
          open \in BOOLEAN :
           Immutable(issue(storage, sender, seed, name, issue_qty, open))
    /\ \A sender \in Accounts, asset_id \in Hashes, issue_qty \in U64 :
           Immutable(issuemore(storage, sender, asset_id, issue_qty))
    /\ \A sender \in Accounts, to \in Accounts, asset_id \in Hashes, qty \in U64 :
           Immutable(sendasset(storage, sender, to, asset_id, qty))

\* C13 witness: after an asset was created a later issuemore or sendasset
\* succeeded, and the asset has the owner named by its Issued event.
C13_Witness ==
    /\ Len(events) = 2
    /\ events[1][1] = "Issued"
    /\ events[2][1] # "Issued"
    /\ storage.AssetOwner[events[1][3]] = events[1][2]
    /\ result = Ok

\* The outcome out of a call leaves the total of every existing asset as it is.
TotalsKept(out) ==
    \A asset_id \in DOMAIN storage.TotalIssuedAssets :
        /\ exists(out.storage.TotalIssuedAssets, asset_id)
        /\ out.storage.TotalIssuedAssets[asset_id] = storage.TotalIssuedAssets[asset_id]

\* C14: the total of an existing asset never decreases in a call, changes only
\* in a successful issuemore on that asset by its owner while it is open, and
\* for an asset created closed is in every state the quantity of its issue.
C14_TotalMonotone ==
    /\ \A asset_id \in DOMAIN storage.Assets :
           ~storage.Assets[asset_id].open =>
               /\ exists(storage.TotalIssuedAssets, asset_id)
               /\ storage.TotalIssuedAssets[asset_id] = issued_first[asset_id]
    /\ \A sender \in Accounts, seed \in Seeds, name \in Names, issue_qty \in U64,
          open \in BOOLEAN :
           TotalsKept(issue(storage, sender, seed, name, issue_qty, open))
    /\ \A sender \in Accounts, to \in Accounts, asset_id \in Hashes, qty \in U64 :
           LET out == sendasset(storage, sender, to, asset_id, qty)
           IN  out.storage.TotalIssuedAssets = storage.TotalIssuedAssets
    /\ \A sender \in Accounts, asset_id \in Hashes, issue_qty \in U64 :
           LET out == issuemore(storage, sender, asset_id, issue_qty)
           IN  /\ DOMAIN out.storage.TotalIssuedAssets = DOMAIN storage.TotalIssuedAssets
               /\ \A id \in DOMAIN storage.TotalIssuedAssets :
                      /\ out.storage.TotalIssuedAssets[id] >= storage.TotalIssuedAssets[id]
                      /\ out.storage.TotalIssuedAssets[id] # storage.TotalIssuedAssets[id] =>
                             /\ out.result = Ok
                             /\ id = asset_id
                             /\ owner_of(storage, id) = Some(sender)
                             /\ asset(storage, id).open

\* C14 witness: the total of an open asset is above the quantity of its issue.
C14_Witness ==
    \E asset_id \in DOMAIN storage.Assets :
        /\ storage.Assets[asset_id].open
        /\ storage.TotalIssuedAssets[asset_id] > issued_first[asset_id]

\* The Overflow errors of the three calls.
IsOverflow(r) ==
    r \in {OverflowOwnedCount, OverflowAllCount, OverflowMyCount, OverflowIssue, OverflowTo}

\* Every count, position, total, balance and the nonce in storage is a u64.
InRange ==
    /\ storage.AllAssetsCount \in U64
    /\ storage.Nonce \in U64
    /\ \A k \in DOMAIN storage.AllAssetsIndex : storage.AllAssetsIndex[k] \in U64
    /\ \A k \in DOMAIN storage.OwnedAssetsCount : storage.OwnedAssetsCount[k] \in U64
    /\ \A k \in DOMAIN storage.OwnedAssetsIndex : storage.OwnedAssetsIndex[k] \in U64
    /\ \A k \in DOMAIN storage.TotalIssuedAssets : storage.TotalIssuedAssets[k] \in U64
    /\ \A k \in DOMAIN storage.MyAssetsCount : storage.MyAssetsCount[k] \in U64
    /\ \A k \in DOMAIN storage.MyAssetsIndex : storage.MyAssetsIndex[k] \in U64
    /\ \A k \in DOMAIN storage.MyAssetBalances : storage.MyAssetBalances[k] \in U64

C16_IdDeterministic ==
    \A sender \in Accounts, seed \in Seeds :
        LET id == Hash(seed, sender, storage.Nonce)
            ref == issue(storage, sender, seed, "gold", 0, FALSE)
        IN  \A name \in Names, issue_qty \in U64, open \in BOOLEAN :
                LET out == issue(storage, sender, seed, name, issue_qty, open)
                IN  /\ out.result = ref.result
                    /\ out.result = Ok =>
                           /\ out.deposited = << Issued(sender, id) >>
                           /\ DOMAIN out.storage.Assets = DOMAIN storage.Assets \cup {id}
                           /\ out.storage.Assets[id].id = id
                           /\ DOMAIN out.storage.AssetOwner =
                                  DOMAIN storage.AssetOwner \cup {id}

\* C16 witness: one account has issued two assets, which the nonce gave two
\* ids.
C16_Witness ==
    /\ Len(events) = 2
    /\ events[1][1] = "Issued"
    /\ events[2][1] = "Issued"
    /\ events[1][2] = events[2][2]
    /\ events[1][3] # events[2][3]

\* The number of Issued events in the log.
IssuedEvents == Cardinality({i \in DOMAIN events : events[i][1] = "Issued"})

\* C17: a successful call deposits exactly one event, made of its own
\* arguments (for issue: the caller and the id it created, which is in storage
\* by then), a failing call deposits none, and the log holds as many Issued
\* events as the global count of assets.
C17_EventPerSuccess ==
    /\ IssuedEvents = storage.AllAssetsCount
    /\ \A sender \in Accounts, seed \in Seeds, name \in Names, issue_qty \in U64,
          open \in BOOLEAN :
           LET out == issue(storage, sender, seed, name, issue_qty, open)
           IN  IF out.result = Ok
               THEN /\ Len(out.deposited) = 1
                    /\ out.deposited[1][1] = "Issued"
                    /\ out.deposited[1][2] = sender
                    /\ out.deposited[1][3] \in
                           DOMAIN out.storage.Assets \ DOMAIN storage.Assets
                    /\ Len(out.deposited[1]) = 3
               ELSE out.deposited = << >>
    /\ \A sender \in Accounts, asset_id \in Hashes, issue_qty \in U64 :
           LET out == issuemore(storage, sender, asset_id, issue_qty)
           IN  out.deposited =
                   IF out.result = Ok
                   THEN << << "IssuedMore", sender, asset_id, issue_qty >> >>
                   ELSE << >>
    /\ \A sender \in Accounts, to \in Accounts, asset_id \in Hashes, qty \in U64 :
           LET out == sendasset(storage, sender, to, asset_id, qty)
           IN  out.deposited =
                   IF out.result = Ok
                   THEN << << "SentAsset", sender, to, asset_id, qty >> >>
                   ELSE << >>

\* C17 witness: the log holds the one event of a successful issue, and a
\* transfer that failed after it has added nothing.
C17_Witness ==
    /\ Len(events) = 1
    /\ events[1][1] = "Issued"
    /\ storage.AllAssetsCount = 1
    /\ called = "sendasset"
    /\ result = InsufficientBalance

\* The outcome out of a call leaves the nonce and the global count as they are.
CountersKept(out) ==
    /\ out.storage.Nonce = storage.Nonce
    /\ out.storage.AllAssetsCount = storage.AllAssetsCount

\* C18: the nonce equals the global count of assets in every reachable state;
\* a successful issue adds exactly one to both (the unchecked increment does
\* not wrap, issue having failed with Overflow at the maximum), and a failing
\* issue, an issuemore and a sendasset change neither.
C18_NonceIsCount ==
    /\ storage.Nonce = storage.AllAssetsCount
    /\ \A sender \in Accounts, seed \in Seeds, name \in Names, issue_qty \in U64,
          open \in BOOLEAN :
           LET out == issue(storage, sender, seed, name, issue_qty, open)
           IN  /\ storage.Nonce = U64Max => IsOverflow(out.result)
               /\ IF out.result = Ok
                  THEN /\ out.storage.Nonce = storage.Nonce + 1
                       /\ out.storage.AllAssetsCount = storage.AllAssetsCount + 1
                  ELSE CountersKept(out)
    /\ \A sender \in Accounts, asset_id \in Hashes, issue_qty \in U64 :
           CountersKept(issuemore(storage, sender, asset_id, issue_qty))
    /\ \A sender \in Accounts, to \in Accounts, asset_id \in Hashes, qty \in U64 :
           CountersKept(sendasset(storage, sender, to, asset_id, qty))

\* C18 witness: issue has brought the nonce and the global count to the
\* maximum.
C18_Witness ==
    /\ called = "issue"
    /\ result = Ok
    /\ storage.Nonce = U64Max
    /\ storage.AllAssetsCount = U64Max

\* The asset exists in Assets, AssetOwner and TotalIssuedAssets of storage s.
IsRealAsset(s, asset_id) ==
    /\ exists(s.Assets, asset_id)
    /\ exists(s.AssetOwner, asset_id)
    /\ exists(s.TotalIssuedAssets, asset_id)

\* C19: in every reachable state every holding entry and every nonzero balance
\* is of an asset that exists in Assets, AssetOwner and TotalIssuedAssets, a
\* nonzero balance has a holding entry, and so a sendasset that succeeds moves
\* units of an existing asset and leaves only holdings of existing assets.
C19_HoldingsAreReal ==
    /\ \A key \in DOMAIN storage.MyAssetsIndex : IsRealAsset(storage, key[2])
    /\ \A key \in DOMAIN storage.MyAssetBalances :
           storage.MyAssetBalances[key] # 0 =>
               /\ IsRealAsset(storage, key[2])
               /\ exists(storage.MyAssetsIndex, key)
    /\ \A sender \in Accounts, to \in Accounts, asset_id \in Hashes, qty \in U64 :
           LET out == sendasset(storage, sender, to, asset_id, qty)
           IN  out.result = Ok =>
                   /\ IsRealAsset(storage, asset_id)
                   /\ \A key \in DOMAIN out.storage.MyAssetsIndex :
                          IsRealAsset(out.storage, key[2])

\* C19 witness: a transfer has given a holding of an existing asset to an
\* account while an id of the hash space names no asset.
C19_Witness ==
    /\ called = "sendasset"
    /\ result = Ok
    /\ LastEvent[5] > 0
    /\ LastEvent[2] # LastEvent[3]
    /\ IsRealAsset(storage, LastEvent[4])
    /\ my_asset_balance(storage, << LastEvent[3], LastEvent[4] >>) > 0
    /\ \E asset_id \in Hashes : ~exists(storage.Assets, asset_id)

\* C20: sendasset of quantity 0 by a caller with a holding entry for the
\* asset, whatever its balance, succeeds, changes no balance and no total,
\* and appends a holding entry with balance 0 to the enumeration of a
\* recipient that has none (and changes no enumeration otherwise).
C20_ZeroTransfer ==
    \A key \in DOMAIN storage.MyAssetsIndex, to \in Accounts :
        LET sender == key[1]
            asset_id == key[2]
            out == sendasset(storage, sender, to, asset_id, 0)
            new == out.storage
            to_key == << to, asset_id >>
            to_asset_count == my_asset_count(storage, to)
        IN  /\ out.result = Ok
            /\ \A k \in Accounts \X Hashes : my_asset_balance(new, k) = my_asset_balance(storage, k)
            /\ new.TotalIssuedAssets = storage.TotalIssuedAssets
            /\ IF exists(storage.MyAssetsIndex, to_key)
               THEN new = storage
               ELSE /\ new.MyAssetsArray =
                           insert(storage.MyAssetsArray, << to, to_asset_count >>, asset_id)
                    /\ new.MyAssetsCount = insert(storage.MyAssetsCount, to, to_asset_count + 1)
                    /\ new.MyAssetsIndex = insert(storage.MyAssetsIndex, to_key, to_asset_count)
                    /\ exists(new.MyAssetBalances, to_key)
                    /\ new.MyAssetBalances[to_key] = 0

\* C20 witness: an account that issued nothing has a holding entry, with
\* balance 0, for an asset of which no event of the log sent it a positive
\* quantity, after a transfer by a caller whose own balance is 0.
C20_Witness ==
    /\ called = "sendasset"
    /\ result = Ok
    /\ LastEvent[5] = 0
    /\ LastEvent[2] # LastEvent[3]
    /\ my_asset_balance(storage, << LastEvent[2], LastEvent[4] >>) = 0
    /\ exists(storage.MyAssetsIndex, << LastEvent[3], LastEvent[4] >>)
    /\ storage.MyAssetBalances[<< LastEvent[3], LastEvent[4] >>] = 0
    /\ owned_asset_count(storage, LastEvent[3]) = 0
    /\ \A i \in DOMAIN events :
           (events[i][1] = "SentAsset" /\ events[i][3] = LastEvent[3]) => events[i][5] = 0

====
